---- MODULE Spec2Model ----
(***************************************************************************)
(* Model of the claim risk and repair-cost decision code of the ClaimGuard *)
(* application: the repair knowledge base (repair_rag_service.py), the     *)
(* vision analysis and its aggregation (vision_analyzer.py), the damage    *)
(* assessment service (image_analyzer.py), the ingestion of fraud scores   *)
(* (ingest_kaggle_data.py) and the real-time fraud assessment of the       *)
(* review dashboard (claim_review_app.py).                                 *)
(*                                                                         *)
(* Python strings are sequences of one-character strings, so that lower()  *)
(* and replace() are computed character by character.  Money is in whole   *)
(* dollars.  The model scores are in hundredths (0.42 is 42) and the       *)
(* composite score in thousandths (0.6*0.50 + 0.4*0.30 is 420); products   *)
(* and thresholds are exact decimal arithmetic.  An Optional value is a    *)
(* sequence: << >> is None and <<v>> is the value v.                       *)
(***************************************************************************)
EXTENDS Integers, Sequences, FiniteSets, TLC

(***************************************************************************)
(* Bounds of the model.                                                    *)
(***************************************************************************)
MaxImages == 2
MaxBatch == 3
MaxTypes == 3
MaxLen == 3

(***************************************************************************)
(* Python string operations.                                               *)
(***************************************************************************)
Uppers == <<"A","B","C","D","E","F","G","H","I","J","K","L","M",
            "N","O","P","Q","R","S","T","U","V","W","X","Y","Z">>
Lowers == <<"a","b","c","d","e","f","g","h","i","j","k","l","m",
            "n","o","p","q","r","s","t","u","v","w","x","y","z">>

LowerChar(c) ==
    IF \E i \in 1..Len(Uppers) : Uppers[i] = c
    THEN Lowers[CHOOSE i \in 1..Len(Uppers) : Uppers[i] = c]
    ELSE c

\* str.lower()
lower(s) == [i \in 1..Len(s) |-> LowerChar(s[i])]

\* str.replace(old, new) for one-character old and new
replace(s, old, new) == [i \in 1..Len(s) |-> IF s[i] = old THEN new ELSE s[i]]

\* normalize with the two replacements chained the wrong way
normalize_chained(s) == replace(replace(lower(s), "-", "_"), " ", "-")

\* damage_type.lower().replace(" ", "_").replace("-", "_")
normalize(s) == replace(replace(lower(s), " ", "_"), "-", "_")

\* Python truthiness of an Optional[str]: None and "" are false
Falsy(opt) == opt = << >> \/ opt[1] = << >>

(***************************************************************************)
(* String literals of the source.                                          *)
(***************************************************************************)
s_front_end_damage == <<"f","r","o","n","t","-","e","n","d","-","d","a","m","a","g","e">>
s_rear_end_damage == <<"r","e","a","r","-","e","n","d","-","d","a","m","a","g","e">>
s_side_impact_damage ==
    <<"s","i","d","e","-","i","m","p","a","c","t","-","d","a","m","a","g","e">>
s_dent == <<"d","e","n","t">>
s_scratch == <<"s","c","r","a","t","c","h">>
s_broken_glass == <<"b","r","o","k","e","n","_","g","l","a","s","s">>
s_crushed == <<"c","r","u","s","h","e","d">>
s_minor == <<"m","i","n","o","r">>
s_moderate == <<"m","o","d","e","r","a","t","e">>
s_major == <<"m","a","j","o","r">>
s_description == <<"d","e","s","c","r","i","p","t","i","o","n">>
s_common_parts == <<"c","o","m","m","o","n","_","p","a","r","t","s">>

(***************************************************************************)
(* RepairKnowledgeBase.REPAIR_COSTS                                        *)
(***************************************************************************)
Row(mn, mx, days) == [min |-> mn, max |-> mx, avg_days |-> days]

REPAIR_COSTS_KEYS ==
    {s_front_end_damage, s_rear_end_damage, s_side_impact_damage, s_dent,
     s_scratch, s_broken_glass, s_crushed}

\* the keys of every entry of REPAIR_COSTS
DAMAGE_DATA_KEYS == {s_minor, s_moderate, s_major, s_description, s_common_parts}

\* the keys of an entry whose value is a cost row (the others are a str and a list)
COST_ROW_KEYS == {s_minor, s_moderate, s_major}

REPAIR_COSTS(key) ==
    CASE key = s_front_end_damage ->
           [minor |-> Row(1500, 3500, 3), moderate |-> Row(3500, 8000, 5),
            major |-> Row(8000, 15000, 10)]
      [] key = s_rear_end_damage ->
           [minor |-> Row(1200, 3000, 3), moderate |-> Row(3000, 7000, 5),
            major |-> Row(7000, 14000, 8)]
      [] key = s_side_impact_damage ->
           [minor |-> Row(2000, 4000, 4), moderate |-> Row(4000, 10000, 7),
            major |-> Row(10000, 25000, 14)]
      [] key = s_dent ->
           [minor |-> Row(150, 500, 1), moderate |-> Row(500, 1500, 2),
            major |-> Row(1500, 3000, 3)]
      [] key = s_scratch ->
           [minor |-> Row(100, 400, 1), moderate |-> Row(400, 1200, 2),
            major |-> Row(1200, 2500, 3)]
      [] key = s_broken_glass ->
           [minor |-> Row(200, 400, 1), moderate |-> Row(400, 800, 1),
            major |-> Row(800, 1500, 2)]
      [] key = s_crushed ->
           [minor |-> Row(3000, 6000, 7), moderate |-> Row(6000, 15000, 14),
            major |-> Row(15000, 30000, 21)]

\* damage_data[sev] for a sev that names a cost row
CostRow(key, sev) ==
    CASE sev = s_minor -> REPAIR_COSTS(key).minor
      [] sev = s_moderate -> REPAIR_COSTS(key).moderate
      [] sev = s_major -> REPAIR_COSTS(key).major

(***************************************************************************)
(* RepairKnowledgeBase.REPAIR_SCENARIOS, in declaration order.             *)
(***************************************************************************)
REPAIR_SCENARIOS ==
    << [scenario |-> "Minor front bumper scuff",
        damage_types |-> <<s_scratch, s_dent>>,
        cost_range |-> <<300, 800>>, repair_time_days |-> 1],
       [scenario |-> "Moderate front-end collision",
        damage_types |-> <<s_front_end_damage, s_broken_glass>>,
        cost_range |-> <<4000, 9000>>, repair_time_days |-> 5],
       [scenario |-> "Severe side impact",
        damage_types |-> <<s_side_impact_damage, s_crushed, s_broken_glass>>,
        cost_range |-> <<12000, 28000>>, repair_time_days |-> 14],
       [scenario |-> "Parking lot door ding",
        damage_types |-> <<s_dent>>,
        cost_range |-> <<150, 400>>, repair_time_days |-> 1],
       [scenario |-> "Rear-end collision at low speed",
        damage_types |-> <<s_rear_end_damage>>,
        cost_range |-> <<1500, 3500>>, repair_time_days |-> 3] >>

(***************************************************************************)
(* RepairKnowledgeBase.get_repair_context                                  *)
(***************************************************************************)
RECURSIVE SumSeq(_)
SumSeq(s) == IF s = << >> THEN 0 ELSE Head(s) + SumSeq(Tail(s))

Max(a, b) == IF a > b THEN a ELSE b

RECURSIVE MaxSeq(_)
\* max(0, s[1], ..., s[n]), the fold of max() started at 0
MaxSeq(s) == IF s = << >> THEN 0 ELSE Max(Head(s), MaxSeq(Tail(s)))

Range(s) == {s[i] : i \in 1..Len(s)}

\* if sev not in damage_data: sev = "moderate"
SevInData(sev) == IF sev \notin DAMAGE_DATA_KEYS THEN s_moderate ELSE sev

\* sev = severity if severity else "moderate", then the check above
SevUsed(severity) == SevInData(IF Falsy(severity) THEN s_moderate ELSE severity[1])

\* `normalized in cls.REPAIR_COSTS`
InRepairCosts(damage_type) == normalize(damage_type) \in REPAIR_COSTS_KEYS

\* cost_info["min"] raises TypeError when damage_data[sev] is the description
\* string or the common_parts list
LookupRaises(damage_types, severity) ==
    /\ \E i \in 1..Len(damage_types) : InRepairCosts(damage_types[i])
    /\ SevUsed(severity) \notin COST_ROW_KEYS

BreakdownEntry(damage_type, sev, cost_info) ==
    [type |-> damage_type,
     severity |-> sev,
     cost_min |-> cost_info.min,
     cost_max |-> cost_info.max,
     repair_days |-> cost_info.avg_days]

RECURSIVE damage_breakdown_until(_, _)
\* damage_breakdown with the loop left at the first type that is not a key
damage_breakdown_until(damage_types, sev) ==
    IF damage_types = << >> THEN << >>
    ELSE IF InRepairCosts(Head(damage_types))
         THEN <<BreakdownEntry(Head(damage_types), sev,
                               CostRow(normalize(Head(damage_types)), sev))>>
                \o damage_breakdown_until(Tail(damage_types), sev)
         ELSE << >>

RECURSIVE damage_breakdown(_, _)
\* the entries appended by the loop over damage_types, for the severity used
damage_breakdown(damage_types, sev) ==
    IF damage_types = << >> THEN << >>
    ELSE (IF InRepairCosts(Head(damage_types))
          THEN <<BreakdownEntry(Head(damage_types), sev,
                                CostRow(normalize(Head(damage_types)), sev))>>
          ELSE << >>)
           \o damage_breakdown(Tail(damage_types), sev)

NormalizedSet(damage_types) == {normalize(dt) : dt \in Range(damage_types)}

ScenarioEntry(scenario, overlap, scenario_types) ==
    IF overlap > 0
    THEN << [scenario |-> scenario.scenario,
             cost_range |-> scenario.cost_range,
             repair_time |-> scenario.repair_time_days,
             relevance |-> <<overlap, Cardinality(scenario_types)>>] >>
    ELSE << >>

\* the scenario's entry of similar_scenarios, or << >> when overlap = 0;
\* relevance = overlap / len(scenario_types) is the pair <<overlap, len>>
ScenarioMatch(scenario, detected_types) ==
    ScenarioEntry(scenario,
                  Cardinality(NormalizedSet(scenario.damage_types) \cap detected_types),
                  NormalizedSet(scenario.damage_types))

RECURSIVE MatchedScenarios(_, _)
MatchedScenarios(scenarios, detected_types) ==
    IF scenarios = << >> THEN << >>
    ELSE ScenarioMatch(Head(scenarios), detected_types)
           \o MatchedScenarios(Tail(scenarios), detected_types)

\* relevance a = n1/d1 is greater than relevance b = n2/d2
RelGreater(a, b) == a[1] * b[2] > b[1] * a[2]

\* the place of s[i] after list.sort(key=relevance, reverse=True): behind the
\* entries of greater relevance and the earlier entries of equal relevance
SortedPlace(s, i) ==
    Cardinality({j \in 1..Len(s) :
                    \/ RelGreater(s[j].relevance, s[i].relevance)
                    \/ (~RelGreater(s[i].relevance, s[j].relevance) /\ j <= i)})

\* SortByRelevance without the sort: the entries in declaration order
LeftUnsorted(s) == s

\* list.sort(key=relevance, reverse=True): stable, descending
SortByRelevance(s) ==
    [k \in 1..Len(s) |-> s[CHOOSE i \in 1..Len(s) : SortedPlace(s, i) = k]]

REC_STRUCTURAL == "High repair cost - recommend structural inspection"
REC_RENTAL == "Extended repair time - arrange rental vehicle"
REC_TOTAL_LOSS == "Severe damage - total loss evaluation recommended"
REC_COMPREHENSIVE == "Multiple damage areas - comprehensive damage assessment required"

\* Recommendations with the cost and day thresholds included (>=)
RecommendationsFrom(damage_types, breakdown, total_cost_max, estimated_repair_days) ==
    (IF total_cost_max >= 15000 THEN <<REC_STRUCTURAL>> ELSE << >>)
    \o (IF estimated_repair_days >= 7 THEN <<REC_RENTAL>> ELSE << >>)
    \o (IF \E i \in 1..Len(breakdown) : lower(breakdown[i].type) = s_crushed
        THEN <<REC_TOTAL_LOSS>> ELSE << >>)
    \o (IF Len(damage_types) >= 3 THEN <<REC_COMPREHENSIVE>> ELSE << >>)

Recommendations(damage_types, breakdown, total_cost_max, estimated_repair_days) ==
    (IF total_cost_max > 15000 THEN <<REC_STRUCTURAL>> ELSE << >>)
    \o (IF estimated_repair_days > 7 THEN <<REC_RENTAL>> ELSE << >>)
    \o (IF \E i \in 1..Len(breakdown) : lower(breakdown[i].type) = s_crushed
        THEN <<REC_TOTAL_LOSS>> ELSE << >>)
    \o (IF Len(damage_types) >= 3 THEN <<REC_COMPREHENSIVE>> ELSE << >>)

CostMins(breakdown) == [i \in 1..Len(breakdown) |-> breakdown[i].cost_min]
CostMaxs(breakdown) == [i \in 1..Len(breakdown) |-> breakdown[i].cost_max]
RepairDays(breakdown) == [i \in 1..Len(breakdown) |-> breakdown[i].repair_days]

\* the context dict, from the breakdown and the totals the loop accumulated
Context(damage_types, breakdown, total_min, total_max, days, scenarios) ==
    [error |-> "none",
     damage_breakdown |-> breakdown,
     total_cost_min |-> total_min,
     total_cost_max |-> total_max,
     estimated_repair_days |-> days,
     similar_scenarios |-> scenarios,
     recommendations |-> Recommendations(damage_types, breakdown, total_max, days)]

ContextOf(damage_types, breakdown) ==
    Context(damage_types, breakdown,
            SumSeq(CostMins(breakdown)), SumSeq(CostMaxs(breakdown)),
            MaxSeq(RepairDays(breakdown)),
            SortByRelevance(MatchedScenarios(REPAIR_SCENARIOS,
                                             NormalizedSet(damage_types))))

get_repair_context(damage_types, severity) ==
    IF LookupRaises(damage_types, severity)
    THEN [error |-> "TypeError"]
    ELSE ContextOf(damage_types, damage_breakdown(damage_types, SevUsed(severity)))

(***************************************************************************)
(* RepairRAGService.augment_damage_assessment                              *)
(***************************************************************************)
Augmentation(repair_context) ==
    IF repair_context.error # "none"
    THEN [error |-> repair_context.error]
    ELSE [error |-> "none",
          repair_context |-> repair_context,
          cost_estimate |->
              [min |-> repair_context.total_cost_min,
               max |-> repair_context.total_cost_max,
               confidence |-> IF repair_context.similar_scenarios # << >>
                              THEN "high" ELSE "medium"],
          recommendations |-> repair_context.recommendations]

augment_damage_assessment(detected_damages, severity) ==
    Augmentation(get_repair_context(detected_damages, severity))

(***************************************************************************)
(* The vision model's parsed answers (VisionAnalyzer._parse_analysis_      *)
(* response): a failure, or the JSON object of the prompt, whose keys      *)
(* severity and cost_estimate may be missing (Optional).                   *)
(***************************************************************************)
s_MINOR == <<"M","I","N","O","R">>
s_MODERATE == <<"M","O","D","E","R","A","T","E">>
s_MAJOR == <<"M","A","J","O","R">>
s_TOTAL_LOSS == <<"T","O","T","A","L","_","L","O","S","S">>
s_crack == <<"c","r","a","c","k">>
s_Dent == <<"D","e","n","t">>
s_Front_End_Damage ==
    <<"F","r","o","n","t"," ","E","n","d"," ","D","a","m","a","g","e">>

Failed == [success |-> FALSE]

Parsed(types, sev, cost) ==
    [success |-> TRUE, damage_types |-> types, severity |-> sev, cost_estimate |-> cost]

Cost(mn, mx) == <<[min |-> mn, max |-> mx]>>

\* analysis.get('severity', '').lower().replace('_', ' ')
SeverityForRAG(analysis) ==
    replace(lower(IF analysis.severity = << >> THEN << >> ELSE analysis.severity[1]),
            "_", " ")

\* "Override cost estimates with RAG data" when the confidence is high
Augmented(analysis, rag_augmentation) ==
    IF rag_augmentation.error # "none"
    THEN \* except Exception as e
         [success |-> FALSE]
    ELSE IF rag_augmentation.cost_estimate.confidence = "high"
         THEN [analysis EXCEPT
                 !.cost_estimate = Cost(rag_augmentation.cost_estimate.min,
                                        rag_augmentation.cost_estimate.max)]
                @@ [cost_estimate_source |-> "RAG (Historical Data)"]
         ELSE analysis @@ [cost_estimate_source |-> "AI Estimate"]

\* VisionAnalyzer.analyze_damage, from the parsed answer on
analyze_damage(analysis) ==
    IF analysis.success /\ analysis.damage_types # << >>
    THEN Augmented(analysis,
                   augment_damage_assessment(analysis.damage_types,
                                             <<SeverityForRAG(analysis)>>))
    ELSE analysis

\* a.get('cost_estimate', {}).get('min', 0) and the same for 'max'
CostMin(a) == IF a.cost_estimate = << >> THEN 0 ELSE a.cost_estimate[1].min
CostMax(a) == IF a.cost_estimate = << >> THEN 0 ELSE a.cost_estimate[1].max

(***************************************************************************)
(* VisionAnalyzer._aggregate_analyses                                      *)
(***************************************************************************)
\* severity_order.get(s, 0)
severity_order(s) ==
    CASE s = s_MINOR -> 1
      [] s = s_MODERATE -> 2
      [] s = s_MAJOR -> 3
      [] s = s_TOTAL_LOSS -> 4
      [] OTHER -> 0

RECURSIVE successful(_)
\* [a for a in analyses if a.get('success')]
successful(analyses) ==
    IF analyses = << >> THEN << >>
    ELSE (IF Head(analyses).success THEN <<Head(analyses)>> ELSE << >>)
           \o successful(Tail(analyses))

\* HigherSeverity that keeps the severity of the latest analysis
LatestSeverity(max_severity, a) ==
    IF a.severity # << >> THEN a.severity[1] ELSE max_severity

\* one round of the loop that keeps the severity of the highest order
HigherSeverity(max_severity, a) ==
    IF a.severity # << >>
       /\ severity_order(a.severity[1]) > severity_order(max_severity)
    THEN a.severity[1] ELSE max_severity

RECURSIVE MaxSeverityFrom(_, _)
MaxSeverityFrom(max_severity, analyses) ==
    IF analyses = << >> THEN max_severity
    ELSE MaxSeverityFrom(HigherSeverity(max_severity, Head(analyses)), Tail(analyses))

RECURSIVE MaxOf(_)
\* max() of a non-empty sequence of numbers
MaxOf(s) == IF Len(s) = 1 THEN s[1] ELSE Max(Head(s), MaxOf(Tail(s)))

\* AggregateCost with the per-image values added up
AggregateCostSummed(ok) ==
    [min |-> SumSeq([i \in 1..Len(ok) |-> CostMin(ok[i])]),
     max |-> SumSeq([i \in 1..Len(ok) |-> CostMax(ok[i])])]

\* "Aggregate cost estimates (take max range)"
AggregateCost(ok) ==
    [min |-> MaxOf([i \in 1..Len(ok) |-> CostMin(ok[i])]),
     max |-> MaxOf([i \in 1..Len(ok) |-> CostMax(ok[i])])]

Aggregated(analyses, ok) ==
    IF ok = << >>
    THEN [success |-> FALSE, error |-> "All analyses failed",
          individual_analyses |-> analyses]
    ELSE [success |-> TRUE,
          damage_types |-> UNION {Range(ok[i].damage_types) : i \in 1..Len(ok)},
          severity |-> MaxSeverityFrom(s_MINOR, ok),
          cost_estimate |-> AggregateCost(ok),
          image_count |-> Len(analyses),
          successful_analyses |-> Len(ok),
          individual_analyses |-> analyses]

aggregate_analyses(analyses) ==
    IF analyses = << >> THEN [error |-> "No analyses provided"]
    ELSE Aggregated(analyses, successful(analyses))

\* VisionAnalyzer.analyze_multiple_images
analyze_multiple_images(answers) ==
    aggregate_analyses([i \in 1..Len(answers) |-> analyze_damage(answers[i])])

(***************************************************************************)
(* The database: the Policy, Claim and FraudScore rows of one claim and    *)
(* its DamageAssessment rows, and the value the last call returned.        *)
(***************************************************************************)
VARIABLES policy, claim, fraud_score, assessments, out

vars == <<policy, claim, fraud_score, assessments, out>>

db == <<policy, claim, fraud_score, assessments>>

\* the id of the stored claim, and a well-formed id no claim has
CLAIM_ID == "6f1c0bde-0000-4000-8000-000000000001"
OTHER_ID == "6f1c0bde-0000-4000-8000-000000000002"

\* the strings UUID() accepts
IsUUID(str) == str \in {CLAIM_ID, OTHER_ID}

\* the claim-id strings the callers pass
ClaimIdStrings == {"", "not-a-uuid", CLAIM_ID, OTHER_ID}

\* session.query(Claim).filter(Claim.id == claim_id).first()
QueryClaim(claim_id) == IF claim_id = CLAIM_ID THEN claim ELSE << >>

\* session.query(FraudScore).filter(FraudScore.claim_id == claim_id).first()
QueryFraudScore(claim_id) == IF claim_id = CLAIM_ID THEN fraud_score ELSE << >>

\* session.query(DamageAssessment).filter(DamageAssessment.claim_id == claim_id).all()
QueryAssessments(claim_id) == IF claim_id = CLAIM_ID THEN assessments ELSE << >>

Init ==
    /\ policy = << >>
    /\ claim = << >>
    /\ fraud_score = << >>
    /\ assessments = << >>
    /\ out = [op |-> "init"]

(***************************************************************************)
(* The claim and policy store: a Claim row (estimated_damage is a Float,   *)
(* not nullable) and its Policy row (coverage_limit is a Float, not        *)
(* nullable), or a claim whose policy row is missing.                      *)
(***************************************************************************)
ClaimedAmounts == {1000, 4750, 5000, 30000}
CoverageLimits == {0, 5000, 100000}

store_claim(estimated_damage, coverage) ==
    /\ claim = << >>
    /\ claim' = <<[estimated_damage |-> estimated_damage, status |-> "submitted"]>>
    /\ policy' = coverage
    /\ out' = [op |-> "store_claim"]
    /\ UNCHANGED <<fraud_score, assessments>>

(***************************************************************************)
(* scripts/ingest_kaggle_data.py: generate_fraud_score_from_row            *)
(***************************************************************************)
\* CompositeScore with the graph score subtracted
CompositeScoreDifference(ml_score, graph_score) == 6 * ml_score - 4 * graph_score

\* 0.6 * ml_score + 0.4 * graph_score, in thousandths
CompositeScore(ml_score, graph_score) == 6 * ml_score + 4 * graph_score

\* the risk level of the ingested composite score
IngestRiskLevel(composite_score) ==
    IF composite_score >= 800 THEN "critical"
    ELSE IF composite_score >= 600 THEN "high"
    ELSE IF composite_score >= 300 THEN "medium"
    ELSE "low"

\* the rows of the dataset: the columns the function reads
Rows ==
    { [FraudFound_P |-> 1, PastNumberOfClaims |-> "2 to 4", WitnessPresent |-> "No",
       PoliceReportFiled |-> "No", Days_Policy_Claim |-> "more than 30",
       AddressChange_Claim |-> "1 year"],
      [FraudFound_P |-> 0, PastNumberOfClaims |-> "none", WitnessPresent |-> "Yes",
       PoliceReportFiled |-> "No", Days_Policy_Claim |-> "15 to 30",
       AddressChange_Claim |-> "no change"] }

\* values of random.uniform(0.6, 0.95), (0.5, 0.9), (0.05, 0.45), (0.05, 0.40)
MlScores(fraud_found) == IF fraud_found = 1 THEN {60, 95} ELSE {5, 44}
GraphScores(fraud_found) == IF fraud_found = 1 THEN {50, 90} ELSE {39}

FraudFlags(row) ==
    (IF row.PastNumberOfClaims # "none" THEN <<"multiple_prior_claims">> ELSE << >>)
    \o (IF row.WitnessPresent = "No" /\ row.PoliceReportFiled = "No"
        THEN <<"no_corroboration">> ELSE << >>)
    \o (IF row.Days_Policy_Claim = "more than 30"
        THEN <<"quick_claim_after_policy">> ELSE << >>)
    \o (IF row.AddressChange_Claim # "no change"
        THEN <<"address_change_before_claim">> ELSE << >>)

\* the FraudScore(...) the function returns
FraudScoreRow(row, ml_score, graph_score, composite_score) ==
    [fraud_score |-> composite_score,
     ml_model_score |-> ml_score,
     graph_network_score |-> graph_score,
     fraud_flags |-> FraudFlags(row),
     risk_level |-> IngestRiskLevel(composite_score),
     requires_investigation |-> composite_score >= 500]

generate_fraud_score_from_row(row, ml_score, graph_score) ==
    /\ claim # << >>
    /\ fraud_score = << >>
    /\ fraud_score' = <<FraudScoreRow(row, ml_score, graph_score,
                                     CompositeScore(ml_score, graph_score))>>
    /\ out' = [op |-> "generate_fraud_score_from_row"]
    /\ UNCHANGED <<policy, claim, assessments>>

(***************************************************************************)
(* A FraudScore row written by another producer than the ingestion: the    *)
(* columns ml_model_score, graph_network_score and fraud_score are Floats  *)
(* without a range constraint.                                             *)
(***************************************************************************)
\* signal values in hundredths: below 0, within [0, 1] and above 1
SignalValues == {-20, 50, 130}

store_fraud_score(ml_score, graph_score) ==
    /\ claim # << >>
    /\ fraud_score = << >>
    /\ fraud_score' = <<[fraud_score |-> CompositeScore(ml_score, graph_score),
                         ml_model_score |-> ml_score,
                         graph_network_score |-> graph_score,
                         fraud_flags |-> << >>]>>
    /\ out' = [op |-> "store_fraud_score"]
    /\ UNCHANGED <<policy, claim, assessments>>

(***************************************************************************)
(* scripts/assign_roboflow_images.py: the assessments are cleared and one  *)
(* or two image rows without analysis results are attached to the claim.   *)
(***************************************************************************)
ImageRow ==
    [damage_type |-> << >>, severity |-> << >>,
     estimated_cost_min |-> << >>, estimated_cost_max |-> << >>]

assign_roboflow_images(num_images) ==
    /\ claim # << >>
    /\ num_images <= MaxImages
    /\ assessments' = [i \in 1..num_images |-> ImageRow]
    /\ out' = [op |-> "assign_roboflow_images"]
    /\ UNCHANGED <<policy, claim, fraud_score>>

(***************************************************************************)
(* DamageAssessmentService.assess_claim_damage                             *)
(***************************************************************************)
\* severity_map.get(analysis.get('severity'), DamageSeverity.MODERATE)
severity_map(analysis) ==
    IF analysis.severity = << >> THEN "moderate"
    ELSE CASE analysis.severity[1] = s_MINOR -> "minor"
           [] analysis.severity[1] = s_MODERATE -> "moderate"
           [] analysis.severity[1] = s_MAJOR -> "major"
           [] analysis.severity[1] = s_TOTAL_LOSS -> "total_loss"
           [] OTHER -> "moderate"

\* the keys of damage_type_map among the damage types of the model
damage_type_map(dt) ==
    CASE dt = s_scratch -> <<"scratch">>
      [] dt = s_dent -> <<"dent">>
      [] dt = s_crack -> <<"crack">>
      [] dt = s_crushed -> <<"crushed">>
      [] OTHER -> << >>

RECURSIVE primary_damage_type(_)
\* the first damage type whose lower() is a key of damage_type_map, else DENT
primary_damage_type(damage_types) ==
    IF damage_types = << >> THEN "dent"
    ELSE IF damage_type_map(lower(Head(damage_types))) # << >>
         THEN damage_type_map(lower(Head(damage_types)))[1]
         ELSE primary_damage_type(Tail(damage_types))

AssessmentRow(analysis) ==
    [damage_type |-> <<primary_damage_type(analysis.damage_types)>>,
     severity |-> <<severity_map(analysis)>>,
     estimated_cost_min |-> <<CostMin(analysis)>>,
     estimated_cost_max |-> <<CostMax(analysis)>>]

\* the vision model's answers for the images of a claim
A_crack_moderate == Parsed(<<s_crack>>, <<s_MODERATE>>, Cost(1500, 3500))
A_dent_minor == Parsed(<<s_Dent>>, <<s_MINOR>>, Cost(200, 600))
A_crack_major == Parsed(<<s_crack>>, <<s_MAJOR>>, Cost(4000, 9000))
A_front_end == Parsed(<<s_front_end_damage>>, <<s_MODERATE>>, Cost(3500, 8000))
A_no_types == Parsed(<< >>, << >>, Cost(0, 500))
A_no_cost == Parsed(<<s_crack>>, <<s_TOTAL_LOSS>>, << >>)

Answers ==
    {A_crack_moderate, A_dent_minor, A_crack_major, A_front_end, A_no_types, Failed}

\* the answers met by the dashboard's claims
DashboardAnswers == {A_dent_minor, A_crack_major, A_front_end, Failed}

\* `if not analysis.get('success'): continue`, else the row is added
RowsOf(analysis) ==
    IF analysis.success THEN <<AssessmentRow(analysis)>> ELSE << >>

RECURSIVE NewAssessments(_)
\* one row per answer whose analysis succeeded, in image order
NewAssessments(answers) ==
    IF answers = << >> THEN << >>
    ELSE RowsOf(analyze_damage(Head(answers))) \o NewAssessments(Tail(answers))

SeqsUpTo(S, n) == UNION {[1..k -> S] : k \in 0..n}

\* db.add of every new row, commit, and the list returned
AddAssessments(claim_id, answers, new) ==
    /\ assessments' = assessments \o new
    /\ out' = [op |-> "assess_claim_damage", error |-> "none", claim_id |-> claim_id,
               image_sources |-> answers, images |-> Len(answers), assessments |-> new]
    /\ UNCHANGED <<policy, claim, fraud_score>>

\* an image path that cannot be opened: encode_image raises, ahead of the try
\* block of analyze_damage, and no answer is asked for
Unreadable == [success |-> FALSE, error |-> "FileNotFoundError"]

EncodeRaises(image_source) == image_source = Unreadable

\* the image sources are answers of the vision model or unreadable paths; an
\* exception of analyze_damage leaves the loop before the commit
assess_claim_damage(claim_id, answers) ==
    /\ Len(assessments) + Len(answers) <= MaxImages
    /\ IF QueryClaim(claim_id) = << >>
       THEN /\ out' = [op |-> "assess_claim_damage", error |-> "ValueError",
                       claim_id |-> claim_id, images |-> Len(answers)]
            /\ UNCHANGED db
       ELSE IF \E i \in 1..Len(answers) : EncodeRaises(answers[i])
            THEN /\ out' = [op |-> "assess_claim_damage", error |-> "FileNotFoundError",
                            claim_id |-> claim_id, images |-> Len(answers)]
                 /\ UNCHANGED db
            ELSE AddAssessments(claim_id, answers, NewAssessments(answers))

(***************************************************************************)
(* DamageAssessmentService.get_assessment_summary                          *)
(***************************************************************************)
\* severity_order.get(a.severity, 0)
SeverityRank(severity) ==
    IF severity = << >> THEN 0
    ELSE CASE severity[1] = "minor" -> 1
           [] severity[1] = "moderate" -> 2
           [] severity[1] = "major" -> 3
           [] severity[1] = "total_loss" -> 4
           [] OTHER -> 0

\* max(assessments, key=...).severity: the first row of the highest rank
MaxSeverityRow(rows) ==
    rows[CHOOSE i \in 1..Len(rows) :
            /\ \A j \in 1..Len(rows) : SeverityRank(rows[j].severity)
                                         <= SeverityRank(rows[i].severity)
            /\ \A j \in 1..(i - 1) : SeverityRank(rows[j].severity)
                                       < SeverityRank(rows[i].severity)]

\* TotalCost with the largest per-image value in place of the sum
TotalCostOfLargest(rows) ==
    [min |-> MaxSeq([i \in 1..Len(rows) |-> rows[i].estimated_cost_min[1]]),
     max |-> MaxSeq([i \in 1..Len(rows) |-> rows[i].estimated_cost_max[1]])]

\* sum(a.estimated_cost_min for a in assessments), every value a number
TotalCost(rows) ==
    [min |-> SumSeq([i \in 1..Len(rows) |-> rows[i].estimated_cost_min[1]]),
     max |-> SumSeq([i \in 1..Len(rows) |-> rows[i].estimated_cost_max[1]])]

assessment_summary(rows) ==
    IF rows = << >>
    THEN [error |-> "none", assessment_count |-> 0, max_severity |-> << >>,
          total_cost_estimate |-> [min |-> 0, max |-> 0],
          all_damage_types |-> {}]
    ELSE IF \E i \in 1..Len(rows) : rows[i].estimated_cost_min = << >>
                                      \/ rows[i].estimated_cost_max = << >>
         THEN \* sum() adds None to a number
              [error |-> "TypeError"]
         ELSE IF \E i \in 1..Len(rows) : rows[i].damage_type = << >>
                 \/ MaxSeverityRow(rows).severity = << >>
              THEN \* .value of None
                   [error |-> "AttributeError"]
              ELSE [error |-> "none",
                    assessment_count |-> Len(rows),
                    max_severity |-> MaxSeverityRow(rows).severity,
                    total_cost_estimate |-> TotalCost(rows),
                    all_damage_types |-> {rows[i].damage_type[1] : i \in 1..Len(rows)}]

get_assessment_summary(claim_id) ==
    /\ out' = [op |-> "get_assessment_summary", claim_id |-> claim_id,
               summary |-> assessment_summary(QueryAssessments(claim_id))]
    /\ UNCHANGED db

(***************************************************************************)
(* app/ui/claim_review_app.py: calculate_fraud_realtime                    *)
(***************************************************************************)
\* a.estimated_cost_min or 0
OrZero(opt) == IF opt = << >> THEN 0 ELSE opt[1]

FLAG_UNDER == "Under-claiming"
FLAG_OVER == "Over-claiming"
FLAG_NO_EVIDENCE == "No Evidence"
FLAG_MAXING == "Maxing Coverage"

\* "Check for claim amount discrepancies"
AmountFlags(estimated_damage, actual_damage_min, actual_damage_max) ==
    IF actual_damage_min > 0
    THEN IF 2 * estimated_damage < actual_damage_min
         THEN <<FLAG_UNDER>>
         ELSE IF 2 * estimated_damage > 3 * actual_damage_max
              THEN <<FLAG_OVER>>
              ELSE << >>
    ELSE << >>

\* "Evidence quality check": the flag, and the line written to the report
EvidenceFlags(num_images) ==
    IF num_images = 0 THEN <<FLAG_NO_EVIDENCE>> ELSE << >>

EvidenceLine(num_images) ==
    IF num_images = 0 THEN "CRITICAL: No damage evidence provided"
    ELSE IF num_images < 2 THEN "Limited Evidence: Few photos submitted"
    ELSE "Adequate Evidence: Sufficient documentation"

\* claim.estimated_damage / policy.coverage_limit raises ZeroDivisionError
CoverageRaises(pol) == pol # << >> /\ pol[1].coverage_limit = 0

\* ClaimRatioHigh with >= in place of >
ClaimRatioAtLeast(estimated_damage, coverage_limit) ==
    IF coverage_limit > 0
    THEN 100 * estimated_damage >= 95 * coverage_limit
    ELSE 100 * estimated_damage <= 95 * coverage_limit

\* claim_ratio > 0.95, for a coverage limit that is not 0
ClaimRatioHigh(estimated_damage, coverage_limit) ==
    IF coverage_limit > 0
    THEN 100 * estimated_damage > 95 * coverage_limit
    ELSE 100 * estimated_damage < 95 * coverage_limit

\* "Policy coverage check"
CoverageFlags(estimated_damage, pol) ==
    IF pol # << >> /\ ClaimRatioHigh(estimated_damage, pol[1].coverage_limit)
    THEN <<FLAG_MAXING>>
    ELSE << >>

\* FinalScore without the cap at 1.0
FinalScoreUncapped(discrepancy_flags, stored_score) ==
    IF discrepancy_flags # << >> THEN stored_score + 150 ELSE stored_score

\* min(fraud_score.fraud_score + 0.15, 1.0) with a flag, else the stored score
FinalScore(discrepancy_flags, stored_score) ==
    IF discrepancy_flags # << >>
    THEN IF stored_score + 150 < 1000 THEN stored_score + 150 ELSE 1000
    ELSE stored_score

\* "Smart risk calculation"
RiskLevel(discrepancy_flags, final_score) ==
    IF discrepancy_flags # << >>
    THEN IF Len(discrepancy_flags) >= 2 THEN "CRITICAL" ELSE "HIGH"
    ELSE IF final_score >= 700 THEN "HIGH"
         ELSE IF final_score >= 300 THEN "MEDIUM"
         ELSE "LOW"

\* Recommendation with the score threshold of the review tested first
RecommendationReviewFirst(discrepancy_flags, final_score) ==
    IF final_score >= 500 THEN "MANUAL REVIEW REQUIRED"
    ELSE IF Len(discrepancy_flags) >= 2 THEN "DENY CLAIM"
    ELSE IF Len(discrepancy_flags) >= 1 THEN "MANUAL REVIEW REQUIRED"
    ELSE "APPROVE CLAIM"

\* "Generate recommendation"
Recommendation(discrepancy_flags, final_score) ==
    IF Len(discrepancy_flags) >= 2 \/ final_score >= 800 THEN "DENY CLAIM"
    ELSE IF Len(discrepancy_flags) >= 1 \/ final_score >= 500
         THEN "MANUAL REVIEW REQUIRED"
         ELSE "APPROVE CLAIM"

\* Assessment with the historical flags ahead of the newly detected ones
AssessmentPriorFirst(fs, actual_damage_min, actual_damage_max, num_images, discrepancy_flags, final_score) ==
    [op |-> "calculate_fraud_realtime",
     status |-> "ok",
     base_score |-> fs.fraud_score,
     actual_damage_min |-> actual_damage_min,
     actual_damage_max |-> actual_damage_max,
     num_images |-> num_images,
     evidence_line |-> EvidenceLine(num_images),
     discrepancy_flags |-> discrepancy_flags,
     all_flags |-> fs.fraud_flags \o discrepancy_flags,
     final_score |-> final_score,
     risk_level |-> RiskLevel(discrepancy_flags, final_score),
     recommendation |-> Recommendation(discrepancy_flags, final_score),
     auto_denial_reason |-> (Len(discrepancy_flags) >= 1 \/ final_score >= 700)]

\* the assessment written to the dashboard, from the flags and the final score
Assessment(fs, actual_damage_min, actual_damage_max, num_images, discrepancy_flags, final_score) ==
    [op |-> "calculate_fraud_realtime",
     status |-> "ok",
     base_score |-> fs.fraud_score,
     actual_damage_min |-> actual_damage_min,
     actual_damage_max |-> actual_damage_max,
     num_images |-> num_images,
     evidence_line |-> EvidenceLine(num_images),
     discrepancy_flags |-> discrepancy_flags,
     all_flags |-> discrepancy_flags \o fs.fraud_flags,
     final_score |-> final_score,
     risk_level |-> RiskLevel(discrepancy_flags, final_score),
     recommendation |-> Recommendation(discrepancy_flags, final_score),
     auto_denial_reason |-> (Len(discrepancy_flags) >= 1 \/ final_score >= 700)]

Scored(fs, actual_damage_min, actual_damage_max, num_images, discrepancy_flags) ==
    Assessment(fs, actual_damage_min, actual_damage_max, num_images,
               discrepancy_flags, FinalScore(discrepancy_flags, fs.fraud_score))

\* the three checks in the order of the code; the division of the coverage
\* check raises before anything is returned
Checked(c, fs, pol, actual_damage_min, actual_damage_max, num_images) ==
    IF CoverageRaises(pol)
    THEN [op |-> "calculate_fraud_realtime", status |-> "ZeroDivisionError"]
    ELSE Scored(fs, actual_damage_min, actual_damage_max, num_images,
                AmountFlags(c.estimated_damage, actual_damage_min, actual_damage_max)
                  \o EvidenceFlags(num_images)
                  \o CoverageFlags(c.estimated_damage, pol))

FraudAssessment(c, fs, pol, rows) ==
    Checked(c, fs, pol,
            SumSeq([i \in 1..Len(rows) |-> OrZero(rows[i].estimated_cost_min)]),
            SumSeq([i \in 1..Len(rows) |-> OrZero(rows[i].estimated_cost_max)]),
            Len(rows))

calculate_fraud_realtime(claim_id_str) ==
    /\ out' =
         IF claim_id_str = ""
         THEN [op |-> "calculate_fraud_realtime", status |-> "No claim loaded"]
         ELSE IF ~IsUUID(claim_id_str)
         THEN [op |-> "calculate_fraud_realtime", status |-> "Invalid claim ID"]
         ELSE IF QueryClaim(claim_id_str) = << >> \/ QueryFraudScore(claim_id_str) = << >>
         THEN [op |-> "calculate_fraud_realtime", status |-> "Claim data not found"]
         ELSE FraudAssessment(QueryClaim(claim_id_str)[1],
                              QueryFraudScore(claim_id_str)[1],
                              policy,
                              QueryAssessments(claim_id_str))
    /\ UNCHANGED db

(***************************************************************************)
(* The calls of the stateless services: a knowledge-base lookup and the    *)
(* analysis of a batch of images.  The arguments of the call are drawn by  *)
(* the initial state and the action applies the function to them.          *)
(***************************************************************************)
\* the damage-type strings and the severity arguments of the lookups
TypeNames ==
    {s_front_end_damage, s_Front_End_Damage, s_side_impact_damage, s_dent, s_Dent,
     s_scratch, s_broken_glass, s_crushed, s_crack}

Severities ==
    {<< >>, <<s_minor>>, <<s_moderate>>, <<s_major>>, <<s_MINOR>>, <<s_description>>}

InitKB ==
    /\ policy = << >> /\ claim = << >> /\ fraud_score = << >> /\ assessments = << >>
    /\ out \in {[op |-> "call", damage_types |-> t, severity |-> s] :
                   t \in SeqsUpTo(TypeNames, MaxTypes), s \in Severities}

lookup ==
    /\ out.op = "call"
    /\ out' = [op |-> "get_repair_context", damage_types |-> out.damage_types,
               severity |-> out.severity,
               context |-> get_repair_context(out.damage_types, out.severity)]
    /\ UNCHANGED db

\* the characters of the raw damage-type strings
Chars == {"A", "b", " ", "-", "_"}

InitNormalize ==
    /\ policy = << >> /\ claim = << >> /\ fraud_score = << >> /\ assessments = << >>
    /\ out \in {[op |-> "call", raw |-> s] : s \in SeqsUpTo(Chars, MaxLen)}

\* the normalization of one damage-type string
normalize_call ==
    /\ out.op = "call"
    /\ out' = [op |-> "normalize", raw |-> out.raw, key |-> normalize(out.raw)]
    /\ UNCHANGED db

InitVision ==
    /\ policy = << >> /\ claim = << >> /\ fraud_score = << >> /\ assessments = << >>
    /\ out \in {[op |-> "call", answers |-> a] :
                   a \in SeqsUpTo(Answers \cup {A_no_cost}, MaxBatch)}

analyze_batch ==
    /\ out.op = "call"
    /\ out' = [op |-> "analyze_multiple_images", answers |-> out.answers,
               result |-> analyze_multiple_images(out.answers)]
    /\ UNCHANGED db

(***************************************************************************)
(* scripts/ingest_kaggle_data.py: ingest_data.  One round of the loop adds *)
(* the policy, the claim and its fraud score, committed with their batch.  *)
(* The ingested claim carries a deductible and a status drawn by           *)
(* generate_claim_from_row.                                                *)
(***************************************************************************)
IngestStatuses(fraud_found) ==
    IF fraud_found = 1 THEN {"investigating", "denied"} ELSE {"approved", "settled"}

ingest_data(estimated_damage, coverage_limit, row, ml_score, graph_score, status) ==
    /\ claim = << >>
    /\ policy' = <<[coverage_limit |-> coverage_limit]>>
    /\ claim' = <<[estimated_damage |-> estimated_damage, status |-> status]>>
    /\ fraud_score' = <<FraudScoreRow(row, ml_score, graph_score,
                                      CompositeScore(ml_score, graph_score))>>
    /\ out' = [op |-> "ingest_data"]
    /\ UNCHANGED assessments

(***************************************************************************)
(* app/ui/claim_review_app.py: generate_approval_letter and                *)
(* generate_rejection_email                                                *)
(***************************************************************************)
\* the characters str.strip() removes
Whitespace == {" ", "\t", "\n"}

RECURSIVE lstrip(_)
lstrip(s) == IF s # << >> /\ Head(s) \in Whitespace THEN lstrip(Tail(s)) ELSE s

RECURSIVE rstrip(_)
rstrip(s) ==
    IF s # << >> /\ s[Len(s)] \in Whitespace THEN rstrip(SubSeq(s, 1, Len(s) - 1)) ELSE s

\* denial_reason.strip()
strip(s) == rstrip(lstrip(s))

\* ReasonRejected with the length of the reason as it was typed
ReasonRejectedUntrimmed(denial_reason) ==
    Falsy(denial_reason) \/ Len(denial_reason[1]) < 10

\* not denial_reason or len(denial_reason.strip()) < 10
ReasonRejected(denial_reason) ==
    Falsy(denial_reason) \/ Len(strip(denial_reason[1])) < 10

Repeat(c, n) == [i \in 1..n |-> c]

\* the denial reasons typed into the dashboard: none, the empty string,
\* blanks only, 9 and 10 characters bare and padded with whitespace, and 11
\* characters of which 7 are blanks inside the text
DenialReasons ==
    { << >>,
      << << >> >>,
      <<Repeat(" ", 12)>>,
      <<Repeat("x", 9)>>,
      <<Repeat(" ", 1) \o Repeat("x", 9) \o Repeat(" ", 2)>>,
      <<Repeat("x", 10)>>,
      <<Repeat(" ", 2) \o Repeat("x", 10) \o <<"\n">> >>,
      <<Repeat("x", 2) \o Repeat(" ", 7) \o Repeat("x", 2)>> }

\* claim.policy_id of the claim the query returned: None has no attribute
ClaimDereferenced(claim_id_str, result) ==
    IF QueryClaim(claim_id_str) = << >>
    THEN /\ out' = [result EXCEPT !.status = "AttributeError"]
         /\ UNCHANGED db
    ELSE /\ claim' = <<[claim[1] EXCEPT !.status = result.status]>>
         /\ out' = [result EXCEPT !.status = "ok"]
         /\ UNCHANGED <<policy, fraud_score, assessments>>

\* claim.status = ClaimStatus.APPROVED, session.commit(), and the letter
generate_approval_letter(claim_id_str) ==
    IF claim_id_str = ""
    THEN /\ out' = [op |-> "generate_approval_letter", claim_id |-> claim_id_str,
                    status |-> "No claim loaded"]
         /\ UNCHANGED db
    ELSE IF ~IsUUID(claim_id_str)
    THEN /\ out' = [op |-> "generate_approval_letter", claim_id |-> claim_id_str,
                    status |-> "Invalid claim ID"]
         /\ UNCHANGED db
    ELSE ClaimDereferenced(claim_id_str,
                           [op |-> "generate_approval_letter", claim_id |-> claim_id_str,
                            status |-> "approved"])

\* the email reads fraud_score.fraud_score after the commit: without a fraud
\* score row the status is changed and AttributeError raised
RejectionCommitted(claim_id_str, result) ==
    IF QueryClaim(claim_id_str) # << >> /\ QueryFraudScore(claim_id_str) = << >>
    THEN /\ claim' = <<[claim[1] EXCEPT !.status = "denied"]>>
         /\ out' = [result EXCEPT !.status = "AttributeError"]
         /\ UNCHANGED <<policy, fraud_score, assessments>>
    ELSE ClaimDereferenced(claim_id_str, result)

\* claim.status = ClaimStatus.DENIED, session.commit(), and the email
generate_rejection_email(claim_id_str, denial_reason) ==
    IF claim_id_str = ""
    THEN /\ out' = [op |-> "generate_rejection_email", claim_id |-> claim_id_str,
                    denial_reason |-> denial_reason, status |-> "No claim loaded"]
         /\ UNCHANGED db
    ELSE IF ReasonRejected(denial_reason)
    THEN /\ out' = [op |-> "generate_rejection_email", claim_id |-> claim_id_str,
                    denial_reason |-> denial_reason,
                    status |-> "Please provide a detailed denial reason"]
         /\ UNCHANGED db
    ELSE IF ~IsUUID(claim_id_str)
    THEN /\ out' = [op |-> "generate_rejection_email", claim_id |-> claim_id_str,
                    denial_reason |-> denial_reason, status |-> "Invalid claim ID"]
         /\ UNCHANGED db
    ELSE RejectionCommitted(claim_id_str,
                            [op |-> "generate_rejection_email", claim_id |-> claim_id_str,
                             denial_reason |-> denial_reason, status |-> "denied"])

(***************************************************************************)
(* Spec: the review dashboard on the database of one claim.                *)
(* SpecDamage: the damage assessment service.                              *)
(* SpecVision: the analysis of batches of images.                          *)
(* SpecKB: the lookups of the repair knowledge base.                       *)
(* SpecReview: the decisions of the dashboard on an ingested claim.        *)
(***************************************************************************)
Policies == {<< >>} \cup {<<[coverage_limit |-> l]>> : l \in CoverageLimits}

Next ==
    \/ \E d \in ClaimedAmounts, c \in Policies : store_claim(d, c)
    \/ \E row \in Rows :
         \E ml \in MlScores(row.FraudFound_P), g \in GraphScores(row.FraudFound_P) :
           generate_fraud_score_from_row(row, ml, g)
    \/ \E n \in 1..2 : assign_roboflow_images(n)
    \/ \E answer \in DashboardAnswers : assess_claim_damage(CLAIM_ID, <<answer>>)
    \/ \E str \in ClaimIdStrings : calculate_fraud_realtime(str)

Spec == Init /\ [][Next]_vars

NextDamage ==
    \/ \E d \in ClaimedAmounts : store_claim(d, << >>)
    \/ \E n \in 1..2 : assign_roboflow_images(n)
    \/ \E id \in {CLAIM_ID, OTHER_ID} :
         \E answers \in SeqsUpTo(Answers \cup {Unreadable}, MaxImages) :
            assess_claim_damage(id, answers)
    \/ \E id \in {CLAIM_ID, OTHER_ID} : get_assessment_summary(id)

SpecDamage == Init /\ [][NextDamage]_vars

\* SpecSignals: the dashboard on fraud scores of any signal value
NextSignals ==
    \/ \E d \in ClaimedAmounts, l \in {5000, 100000} :
         store_claim(d, <<[coverage_limit |-> l]>>)
    \/ \E ml \in SignalValues, g \in SignalValues : store_fraud_score(ml, g)
    \/ \E answer \in DashboardAnswers : assess_claim_damage(CLAIM_ID, <<answer>>)
    \/ calculate_fraud_realtime(CLAIM_ID)

SpecSignals == Init /\ [][NextSignals]_vars

\* SpecNormalize: the normalization of damage-type strings
NextNormalize == normalize_call

SpecNormalize == InitNormalize /\ [][NextNormalize]_vars

NextReview ==
    \/ \E d \in ClaimedAmounts, l \in {5000, 100000}, row \in Rows :
         \E ml \in MlScores(row.FraudFound_P), g \in GraphScores(row.FraudFound_P) :
           \E status \in IngestStatuses(row.FraudFound_P) :
              ingest_data(d, l, row, ml, g, status)
    \/ \E str \in ClaimIdStrings : generate_approval_letter(str)
    \/ \E str \in ClaimIdStrings, reason \in DenialReasons :
         generate_rejection_email(str, reason)

SpecReview == Init /\ [][NextReview]_vars

NextVision == analyze_batch

SpecVision == InitVision /\ [][NextVision]_vars

NextKB == lookup

SpecKB == InitKB /\ [][NextKB]_vars

(***************************************************************************)
(* Properties of the knowledge-base lookup (SpecKB)                         *)
(***************************************************************************)
\* C1: a lookup of one reference damage type with one of its severity rows
\* (minor, moderate, major) returns exactly that row: one damage_breakdown
\* entry, total cost equal to the row's [min, max] and the row's repair days;
\* lookup(['front-end-damage'], 'moderate') gives [3500, 8000] and 5 days.
C1_LookupReturnsRow ==
    (/\ out.op = "get_repair_context"
     /\ Len(out.damage_types) = 1
     /\ out.damage_types[1] \in REPAIR_COSTS_KEYS
     /\ out.severity \in {<<s_minor>>, <<s_moderate>>, <<s_major>>})
    => /\ out.context.error = "none"
       /\ Len(out.context.damage_breakdown) = 1
       /\ out.context.total_cost_min = CostRow(out.damage_types[1], out.severity[1]).min
       /\ out.context.total_cost_max = CostRow(out.damage_types[1], out.severity[1]).max
       /\ out.context.estimated_repair_days
            = CostRow(out.damage_types[1], out.severity[1]).avg_days

OkAnalyses == successful(out.result.individual_analyses)

AnalysisSucceeded ==
    /\ out.op = "analyze_multiple_images"
    /\ "success" \in DOMAIN out.result
    /\ out.result.success

AssessmentRequested ==
    /\ out.op = "calculate_fraud_realtime"
    /\ out.status \in {"ok", "ZeroDivisionError"}

AssessmentProduced ==
    /\ out.op = "calculate_fraud_realtime"
    /\ out.status = "ok"

Flagged(flag) == \E i \in 1..Len(out.all_flags) : out.all_flags[i] = flag

\* the assessments of the claim that carry an analysis result
analyzedCount ==
    Cardinality({i \in 1..Len(assessments) : assessments[i].estimated_cost_min # << >>})

\* C4: discrepancy detection is evaluated for every claim with at least one
\* analyzed assessment, whatever the cost values: Under-claiming is flagged
\* exactly when claimed < total min * 0.5 and Over-claiming exactly when
\* claimed > total max * 1.5; with no analyzed assessment neither is flagged.
C4_DiscrepancyWheneverAnalyzed ==
    AssessmentProduced
    => /\ analyzedCount > 0
          => /\ Flagged(FLAG_UNDER)
                  <=> 2 * claim[1].estimated_damage < out.actual_damage_min
             /\ Flagged(FLAG_OVER)
                  <=> 2 * claim[1].estimated_damage > 3 * out.actual_damage_max
       /\ analyzedCount = 0 => ~Flagged(FLAG_UNDER) /\ ~Flagged(FLAG_OVER)

\* C5: the risk tier of a fraud assessment is a function of the final score
\* alone: critical from 0.8, high from 0.6, medium from 0.3, else low; an
\* over-claiming claim of base 0.42 (final 0.57) is medium.
C5_TierFromFinalScoreAlone ==
    AssessmentProduced
    => out.risk_level = IF out.final_score >= 800 THEN "CRITICAL"
                        ELSE IF out.final_score >= 600 THEN "HIGH"
                        ELSE IF out.final_score >= 300 THEN "MEDIUM"
                        ELSE "LOW"

\* C6: the recommendation is deny if two or more flags fired or final >= 0.8,
\* else manual review if a flag fired or final >= 0.5, else approve, and one
\* of the three is produced for every claim assessed.
C6_RecommendationForEveryInput ==
    AssessmentRequested
    => /\ out.status = "ok"
       /\ out.recommendation =
            IF Len(out.discrepancy_flags) >= 2 \/ out.final_score >= 800
            THEN "DENY CLAIM"
            ELSE IF Len(out.discrepancy_flags) >= 1 \/ out.final_score >= 500
                 THEN "MANUAL REVIEW REQUIRED"
                 ELSE "APPROVE CLAIM"

\* C7: the base score is 0.6 * ml score + 0.4 * graph score; the final score
\* is min(base + 0.15, 1.0) when a discrepancy, evidence or coverage flag
\* fired and the base score when none fired; it lies within [0, 1].
C7_FinalScore ==
    AssessmentProduced
    => /\ out.base_score = 6 * fraud_score[1].ml_model_score
                             + 4 * fraud_score[1].graph_network_score
       /\ out.discrepancy_flags # << >>
          => out.final_score = (IF out.base_score + 150 < 1000
                                THEN out.base_score + 150 ELSE 1000)
       /\ out.discrepancy_flags = << >> => out.final_score = out.base_score
       /\ 0 <= out.final_score /\ out.final_score <= 1000

\* a flagged claim of base 0.93 is capped at 1.0
C7_Witness ==
    /\ AssessmentProduced
    /\ out.discrepancy_flags # << >>
    /\ fraud_score[1].ml_model_score = 95
    /\ fraud_score[1].graph_network_score = 90
    /\ out.base_score = 930
    /\ out.final_score = 1000

\* C8: with exactly one image attached the assessment raises a Limited
\* Evidence flag: it is among the flags, it escalates the score by 0.15 and
\* it counts for the recommendation, which cannot be approve.
C8_LimitedEvidenceFlag ==
    (AssessmentProduced /\ Len(assessments) = 1)
    => /\ Flagged("Limited Evidence")
       /\ out.final_score = (IF out.base_score + 150 < 1000
                             THEN out.base_score + 150 ELSE 1000)
       /\ out.recommendation # "APPROVE CLAIM"

\* C9: with no image attached the flags of the assessment contain No Evidence
\* for every value of the scores, the claimed amount and the coverage limit;
\* with an image attached No Evidence is never among the flags.
C9_NoEvidenceFlag ==
    AssessmentRequested
    => /\ assessments = << >> => (out.status = "ok" /\ Flagged(FLAG_NO_EVIDENCE))
       /\ (assessments # << >> /\ out.status = "ok") => ~Flagged(FLAG_NO_EVIDENCE)

\* C10: with a coverage limit <= 0 the coverage check is skipped: no Maxing
\* Coverage flag, no division by zero, and a complete assessment is produced.
C10_CoverageCheckSkipped ==
    (/\ AssessmentRequested
     /\ policy # << >>
     /\ policy[1].coverage_limit <= 0)
    => /\ out.status = "ok"
       /\ ~Flagged(FLAG_MAXING)

\* C11: for a coverage limit > 0 the Maxing Coverage flag is raised exactly
\* when claimed amount / coverage limit > 0.95, strictly: a claim at exactly
\* 95% of the limit is not flagged.
C11_CoverageFlagStrict ==
    (/\ AssessmentProduced
     /\ policy # << >>
     /\ policy[1].coverage_limit > 0)
    => (Flagged(FLAG_MAXING)
          <=> 100 * claim[1].estimated_damage > 95 * policy[1].coverage_limit)

\* a claim of 4750 under a limit of 5000, exactly 95%, is assessed without
\* the flag
C11_Witness ==
    /\ AssessmentProduced
    /\ policy = <<[coverage_limit |-> 5000]>>
    /\ claim[1].estimated_damage = 4750
    /\ ~Flagged(FLAG_MAXING)

(***************************************************************************)
(* Properties of the fraud assessment on any stored signal (SpecSignals)   *)
(***************************************************************************)
\* a signal of the stored fraud score lies outside [0, 1]
SignalOutOfRange ==
    \/ fraud_score[1].ml_model_score < 0 \/ fraud_score[1].ml_model_score > 100
    \/ fraud_score[1].graph_network_score < 0
    \/ fraud_score[1].graph_network_score > 100
    \/ fraud_score[1].fraud_score < 0 \/ fraud_score[1].fraud_score > 1000

\* C12: a fraud assessment requested with a signal outside [0, 1] fails with
\* InvalidSignalRange: the value is not clamped silently and no score, tier
\* or recommendation is returned for it.
C12_InvalidSignalRange ==
    (AssessmentRequested /\ SignalOutOfRange)
    => out.status = "InvalidSignalRange"

(***************************************************************************)
(* Properties of the normalization (SpecNormalize)                         *)
(***************************************************************************)
\* C13: the normalization of a damage-type string is total and idempotent:
\* every string has a normalized key, a string of the same length, and
\* normalizing the key again gives the key.
C13_NormalizeIdempotent ==
    /\ out.op = "call" => ENABLED normalize_call
    /\ out.op = "normalize"
       => /\ Len(out.key) = Len(out.raw)
          /\ normalize(out.key) = out.key

\* "A -" is normalized to "a__"
C13_Witness ==
    /\ out.op = "normalize"
    /\ out.raw = <<"A", " ", "-">>
    /\ out.key = <<"a", "_", "_">>
    /\ normalize(out.key) = out.key

(***************************************************************************)
(* Further properties of the knowledge-base lookup (SpecKB)                *)
(***************************************************************************)
LookupDone == out.op = "get_repair_context"

LookupReturned == LookupDone /\ out.context.error = "none"

\* the damage type is one of the reference data: a reference key has the same
\* normalized form
InReference(damage_type) ==
    \E k \in REPAIR_COSTS_KEYS : normalize(k) = normalize(damage_type)

ReferenceKey(damage_type) ==
    CHOOSE k \in REPAIR_COSTS_KEYS : normalize(k) = normalize(damage_type)

\* the cost row the reference data hold for the i-th type of the lookup and
\* the severity used, or a row of zeros for a type they do not hold
SelectedRow(i) ==
    IF InReference(out.damage_types[i])
    THEN CostRow(ReferenceKey(out.damage_types[i]), SevUsed(out.severity))
    ELSE Row(0, 0, 0)

\* C14: for any sequence of damage types the total cost of a lookup is the
\* sum of the selected rows' min and max over the types present in the
\* reference data and the repair days are the maximum of those rows' days
\* (0 when there are none); the empty input gives [0, 0], 0 days, no
\* scenarios and no recommendations.
C14_TotalsOverReferenceRows ==
    (LookupDone /\ SevUsed(out.severity) \in COST_ROW_KEYS)
    => /\ out.context.error = "none"
       /\ out.context.total_cost_min
            = SumSeq([i \in 1..Len(out.damage_types) |-> SelectedRow(i).min])
       /\ out.context.total_cost_max
            = SumSeq([i \in 1..Len(out.damage_types) |-> SelectedRow(i).max])
       /\ out.context.estimated_repair_days
            = MaxSeq([i \in 1..Len(out.damage_types) |-> SelectedRow(i).avg_days])
       /\ out.damage_types = << >>
          => /\ out.context.total_cost_min = 0
             /\ out.context.total_cost_max = 0
             /\ out.context.estimated_repair_days = 0
             /\ out.context.similar_scenarios = << >>
             /\ out.context.recommendations = << >>

\* the severity whose row the claim selects: the requested one when it names a
\* cost row, else moderate
RequestedRow ==
    IF out.severity # << >> /\ out.severity[1] \in COST_ROW_KEYS
    THEN out.severity[1]
    ELSE s_moderate

\* C15: for every damage type present in the reference data the lookup uses
\* the requested severity's cost row when that row exists and the moderate
\* row when the severity is unspecified or names no row of the type, and the
\* entry records the severity of the row used.
C15_SeverityRowUsed ==
    LookupDone
    => /\ out.context.error = "none"
       /\ Len(out.context.damage_breakdown)
            = Cardinality({i \in 1..Len(out.damage_types) :
                             InReference(out.damage_types[i])})
       /\ \A j \in 1..Len(out.context.damage_breakdown) :
            /\ out.context.damage_breakdown[j].severity = RequestedRow
            /\ out.context.damage_breakdown[j].cost_min
                 = CostRow(ReferenceKey(out.context.damage_breakdown[j].type),
                           RequestedRow).min
            /\ out.context.damage_breakdown[j].cost_max
                 = CostRow(ReferenceKey(out.context.damage_breakdown[j].type),
                           RequestedRow).max
            /\ out.context.damage_breakdown[j].repair_days
                 = CostRow(ReferenceKey(out.context.damage_breakdown[j].type),
                           RequestedRow).avg_days

\* the sequence without its i-th element
Without(seq, i) == [k \in 1..(Len(seq) - 1) |-> IF k < i THEN seq[k] ELSE seq[k + 1]]

\* two lookups fail alike or return the same entries, totals and repair days
SameTotals(context, other) ==
    /\ context.error = other.error
    /\ context.error = "none"
       => /\ context.damage_breakdown = other.damage_breakdown
          /\ context.total_cost_min = other.total_cost_min
          /\ context.total_cost_max = other.total_cost_max
          /\ context.estimated_repair_days = other.estimated_repair_days

\* C16: a damage-type string that is not in the reference data, at any
\* position of the input, does not make the lookup fail, gets no
\* damage_breakdown entry and leaves the total cost and the repair days as
\* they are for the input without it.
C16_UnknownTypeIgnored ==
    LookupDone
    => \A i \in 1..Len(out.damage_types) :
         ~InReference(out.damage_types[i])
         => /\ SameTotals(out.context,
                          get_repair_context(Without(out.damage_types, i), out.severity))
            /\ out.context.error = "none"
               => \A j \in 1..Len(out.context.damage_breakdown) :
                    out.context.damage_breakdown[j].type # out.damage_types[i]

\* dent, crack, scratch at severity minor: the entries and totals of dent and
\* scratch, [250, 900] and 1 day
C16_Witness ==
    /\ LookupReturned
    /\ out.damage_types = <<s_dent, s_crack, s_scratch>>
    /\ out.severity = <<s_minor>>
    /\ Len(out.context.damage_breakdown) = 2
    /\ out.context.total_cost_min = 250
    /\ out.context.total_cost_max = 900
    /\ out.context.estimated_repair_days = 1

\* C17: the lookup is a total function: for every sequence of damage-type
\* strings and every severity string, the other keys of a reference entry
\* ('description', 'common_parts') included, it returns a context and raises
\* no error.
C17_LookupTotal ==
    LookupDone => out.context.error = "none"

\* the overlap of the k-th reference scenario with the detected types
Overlap(k) ==
    Cardinality(NormalizedSet(REPAIR_SCENARIOS[k].damage_types)
                  \cap NormalizedSet(out.damage_types))

\* the place of a scenario in the declaration of the reference scenarios
DeclIndex(scenario) ==
    CHOOSE k \in 1..Len(REPAIR_SCENARIOS) : REPAIR_SCENARIOS[k].scenario = scenario

\* the entry e comes before the entry f: a greater relevance, or the same
\* relevance and an earlier declaration
Precedes(e, f) ==
    \/ e.relevance[1] * f.relevance[2] > f.relevance[1] * e.relevance[2]
    \/ /\ e.relevance[1] * f.relevance[2] = f.relevance[1] * e.relevance[2]
       /\ DeclIndex(e.scenario) < DeclIndex(f.scenario)

\* C18: similar_scenarios holds exactly the reference scenarios whose
\* normalized damage types intersect the normalized detected types, each with
\* relevance overlap / (number of the scenario's damage types), in descending
\* order of relevance, scenarios of equal relevance in declaration order.
C18_ScenariosByRelevance ==
    LookupReturned
    => /\ \A k \in 1..Len(REPAIR_SCENARIOS) :
            Overlap(k) > 0
            <=> \E j \in 1..Len(out.context.similar_scenarios) :
                  out.context.similar_scenarios[j].scenario
                    = REPAIR_SCENARIOS[k].scenario
       /\ Len(out.context.similar_scenarios)
            = Cardinality({k \in 1..Len(REPAIR_SCENARIOS) : Overlap(k) > 0})
       /\ \A j \in 1..Len(out.context.similar_scenarios) :
            out.context.similar_scenarios[j].relevance
              = << Overlap(DeclIndex(out.context.similar_scenarios[j].scenario)),
                   Len(REPAIR_SCENARIOS[
                         DeclIndex(out.context.similar_scenarios[j].scenario)
                       ].damage_types) >>
       /\ \A i, j \in 1..Len(out.context.similar_scenarios) :
            i < j => Precedes(out.context.similar_scenarios[i],
                              out.context.similar_scenarios[j])

\* dent and broken_glass: the door ding (1/1) first, then the bumper scuff and
\* the front-end collision (both 1/2) in declaration order, then the side
\* impact (1/3)
C18_Witness ==
    /\ LookupReturned
    /\ out.damage_types = <<s_dent, s_broken_glass>>
    /\ [j \in 1..Len(out.context.similar_scenarios) |->
          out.context.similar_scenarios[j].scenario]
         = <<"Parking lot door ding", "Minor front bumper scuff",
             "Moderate front-end collision", "Severe side impact">>
    /\ [j \in 1..Len(out.context.similar_scenarios) |->
          out.context.similar_scenarios[j].relevance]
         = << <<1, 1>>, <<1, 2>>, <<1, 2>>, <<1, 3>> >>

Recommended(rec) ==
    \E i \in 1..Len(out.context.recommendations) : out.context.recommendations[i] = rec

\* C19: the comprehensive-assessment recommendation is included exactly when
\* the number of distinct normalized detected damage types is at least 3; a
\* repeated type, as in ['dent', 'dent', 'dent'], does not trigger it.
C19_ComprehensiveOnDistinctTypes ==
    LookupReturned
    => (Recommended(REC_COMPREHENSIVE)
          <=> Cardinality(NormalizedSet(out.damage_types)) >= 3)

\* C20: the recommendation rules are evaluated independently, each included
\* exactly when its condition holds: structural inspection iff total cost
\* max > 15000, rental vehicle iff repair days > 7, total-loss evaluation iff
\* the normalized key crushed is among the detected types.
C20_RecommendationRules ==
    LookupReturned
    => /\ Recommended(REC_STRUCTURAL) <=> out.context.total_cost_max > 15000
       /\ Recommended(REC_RENTAL) <=> out.context.estimated_repair_days > 7
       /\ Recommended(REC_TOTAL_LOSS)
            <=> s_crushed \in NormalizedSet(out.damage_types)

\* crushed and scratch at severity minor: total max 6400 and 7 days, at the
\* day threshold: the total-loss evaluation alone
C20_Witness ==
    /\ LookupReturned
    /\ out.damage_types = <<s_crushed, s_scratch>>
    /\ out.severity = <<s_minor>>
    /\ out.context.total_cost_max = 6400
    /\ out.context.estimated_repair_days = 7
    /\ out.context.recommendations = <<REC_TOTAL_LOSS>>

(***************************************************************************)
(* Properties of the two aggregations on the same analyzed images          *)
(* (SpecVision): _aggregate_analyses on the analyses, and                  *)
(* get_assessment_summary on the rows assess_claim_damage stores for them. *)
(***************************************************************************)
\* the analyses of the images of the call in out, failed ones included
Analyses == out.result.individual_analyses

\* every successfully analyzed image carries one of the four severity levels
SeveritiesGiven ==
    \A i \in 1..Len(OkAnalyses) :
       /\ OkAnalyses[i].severity # << >>
       /\ severity_order(OkAnalyses[i].severity[1]) > 0

RECURSIVE RowsFor(_)
\* the rows assess_claim_damage stores for analyses: one per success, in order
RowsFor(analyses) ==
    IF analyses = << >> THEN << >>
    ELSE RowsOf(Head(analyses)) \o RowsFor(Tail(analyses))

\* the rows stored for the images of the call in out
StoredRows == RowsFor(Analyses)

\* the rank of the severity an aggregation of analyses returns, 0 without one
AggregateRank(analyses) ==
    IF successful(analyses) = << >> THEN 0
    ELSE severity_order(aggregate_analyses(analyses).severity)

\* the rank of the max_severity of a summary of rows, 0 for the empty summary
SummaryRank(rows) == SeverityRank(assessment_summary(rows).max_severity)

\* C21: the aggregated maximum severity is the maximum of the descriptors'
\* severities under minor < moderate < major < total_loss, and it is
\* monotone: the aggregate with a descriptor of severity s is never below s
\* nor below the aggregate without that descriptor; in _aggregate_analyses
\* and in get_assessment_summary alike.
C21_MaxSeverity ==
    (AnalysisSucceeded /\ SeveritiesGiven)
    => /\ \E i \in 1..Len(OkAnalyses) : OkAnalyses[i].severity[1] = out.result.severity
       /\ \A i \in 1..Len(OkAnalyses) :
            severity_order(OkAnalyses[i].severity[1]) <= severity_order(out.result.severity)
       /\ \A i \in 1..Len(Analyses) :
            AggregateRank(Without(Analyses, i)) <= severity_order(out.result.severity)
       /\ assessment_summary(StoredRows).error = "none"
       /\ \E i \in 1..Len(StoredRows) :
            StoredRows[i].severity = assessment_summary(StoredRows).max_severity
       /\ \A i \in 1..Len(StoredRows) :
            /\ SeverityRank(StoredRows[i].severity) <= SummaryRank(StoredRows)
            /\ SummaryRank(Without(StoredRows, i)) <= SummaryRank(StoredRows)
       /\ SummaryRank(StoredRows) = severity_order(out.result.severity)

\* MAJOR, then MINOR, then MODERATE: the aggregate stays MAJOR
C21_Witness ==
    /\ AnalysisSucceeded
    /\ Len(OkAnalyses) = 3
    /\ OkAnalyses[1].severity = <<s_MAJOR>>
    /\ OkAnalyses[2].severity = <<s_MINOR>>
    /\ OkAnalyses[3].severity = <<s_MODERATE>>
    /\ out.result.severity = s_MAJOR
    /\ assessment_summary(StoredRows).max_severity = <<"major">>

\* no image of the call in out was analyzed successfully
NoneAnalyzed ==
    /\ out.op = "analyze_multiple_images"
    /\ \A i \in 1..Len(out.answers) : ~analyze_damage(out.answers[i]).success

\* C22: aggregating an empty descriptor sequence (no image analyzed
\* successfully) is not an error: the aggregation returns a no-assessment
\* summary with undefined severity, zero costs, empty damage types and an
\* analyzed count of 0.
C22_EmptyAggregationIsSummary ==
    NoneAnalyzed
    => /\ "error" \notin DOMAIN out.result
       /\ {"severity", "cost_estimate", "damage_types", "successful_analyses"}
            \subseteq DOMAIN out.result
       /\ out.result.severity = << >>
       /\ out.result.cost_estimate = [min |-> 0, max |-> 0]
       /\ out.result.damage_types = {}
       /\ out.result.successful_analyses = 0

(***************************************************************************)
(* Properties of the summary of a claim's assessments (SpecDamage)         *)
(***************************************************************************)
\* C23: every aggregated summary carries the number of successfully analyzed
\* images and the number of images submitted, the first at most the second
\* and the difference being the number of failed analyses.
C23_CountsInEverySummary ==
    (out.op = "get_assessment_summary" /\ out.summary.error = "none")
    => /\ out.summary.assessment_count = Len(QueryAssessments(out.claim_id))
       /\ "image_count" \in DOMAIN out.summary
       /\ out.summary.assessment_count <= out.summary.image_count

(***************************************************************************)
(* Monotonicity of the fraud assessment of the dashboard (Spec): the       *)
(* assessment in out against the assessments of raised inputs.             *)
(***************************************************************************)
\* approve < manual_review < deny
Strictness(recommendation) ==
    CASE recommendation = "APPROVE CLAIM" -> 0
      [] recommendation = "MANUAL REVIEW REQUIRED" -> 1
      [] recommendation = "DENY CLAIM" -> 2

\* low < medium < high < critical
TierRank(risk_level) ==
    CASE risk_level \in {"LOW", "low"} -> 0
      [] risk_level \in {"MEDIUM", "medium"} -> 1
      [] risk_level \in {"HIGH", "high"} -> 2
      [] risk_level \in {"CRITICAL", "critical"} -> 3

\* n fired flags (the three checks fire at most three)
FiredFlags(n) == [i \in 1..n |-> FLAG_MAXING]

\* final scores in thousandths and model scores in hundredths
FinalScores == {50 * k : k \in 0..20}
ModelScores == {10 * k : k \in 0..10}

\* C24: the recommendation is monotone in strictness under approve <
\* manual_review < deny: everything else fixed, a higher final score or a
\* higher number of fired flags never gives a less strict recommendation.
C24_RecommendationMonotone ==
    AssessmentProduced
    => \A n \in Len(out.discrepancy_flags)..3 :
         \A final_score \in FinalScores \cup {out.final_score} :
            final_score >= out.final_score
            => /\ Strictness(Recommendation(FiredFlags(n), final_score))
                    >= Strictness(out.recommendation)
               /\ Strictness(Recommendation(FiredFlags(n),
                                            FinalScore(FiredFlags(n), final_score)))
                    >= Strictness(out.recommendation)

\* one flag on a final score of 0.336: manual review; approve without the
\* flag and deny with a second one
C24_Witness ==
    /\ AssessmentProduced
    /\ Len(out.discrepancy_flags) = 1
    /\ out.final_score = 336
    /\ out.recommendation = "MANUAL REVIEW REQUIRED"
    /\ Recommendation(<< >>, out.final_score) = "APPROVE CLAIM"
    /\ Recommendation(FiredFlags(2), out.final_score) = "DENY CLAIM"
    /\ Recommendation(out.discrepancy_flags, 800) = "DENY CLAIM"

\* C25: with the claim facts, the damage summary and the flags fixed, the
\* final composite score and the risk tier (low < medium < high < critical)
\* are monotone non-decreasing in the ml model score and in the graph network
\* score; so is the tier stored with the ingested composite score.
C25_ScoreAndTierMonotone ==
    AssessmentProduced
    => \A ml \in ModelScores, g \in ModelScores :
         (ml >= fraud_score[1].ml_model_score /\ g >= fraud_score[1].graph_network_score)
         => /\ out.final_score
                 = FinalScore(out.discrepancy_flags,
                              CompositeScore(fraud_score[1].ml_model_score,
                                             fraud_score[1].graph_network_score))
            /\ FinalScore(out.discrepancy_flags, CompositeScore(ml, g)) >= out.final_score
            /\ TierRank(RiskLevel(out.discrepancy_flags,
                                  FinalScore(out.discrepancy_flags, CompositeScore(ml, g))))
                 >= TierRank(out.risk_level)
            /\ CompositeScore(ml, g) >= fraud_score[1].fraud_score
            /\ TierRank(IngestRiskLevel(CompositeScore(ml, g)))
                 >= TierRank(fraud_score[1].risk_level)

\* no flag, scores 0.60 and 0.50: final 0.56 and MEDIUM; HIGH with an ml
\* model score of 0.90
C25_Witness ==
    /\ AssessmentProduced
    /\ out.discrepancy_flags = << >>
    /\ fraud_score[1].ml_model_score = 60
    /\ fraud_score[1].graph_network_score = 50
    /\ out.final_score = 560
    /\ out.risk_level = "MEDIUM"
    /\ RiskLevel(<< >>, FinalScore(<< >>, CompositeScore(90, 50))) = "HIGH"

\* the step of the assessment that detects a flag: the amount check, then
\* the evidence check, then the coverage check
DetectionStep(flag) ==
    CASE flag \in {FLAG_UNDER, FLAG_OVER} -> 1
      [] flag = FLAG_NO_EVIDENCE -> 2
      [] flag = FLAG_MAXING -> 3
      [] OTHER -> 0

\* the flags stored with the claim's fraud score
priorFlags == fraud_score[1].fraud_flags

\* C26: the flags of a fraud assessment are the newly detected flags in
\* detection order (discrepancy, then evidence quality, then coverage)
\* followed by all the prior flags in their given order: no prior flag
\* precedes a newly detected one and none is dropped or duplicated.
C26_FlagsOrder ==
    AssessmentProduced
    => /\ Len(out.all_flags) = Len(out.discrepancy_flags) + Len(priorFlags)
       /\ \A i \in 1..Len(out.discrepancy_flags) :
            /\ out.all_flags[i] = out.discrepancy_flags[i]
            /\ DetectionStep(out.all_flags[i]) > 0
            /\ \A j \in 1..(i - 1) :
                 DetectionStep(out.all_flags[j]) < DetectionStep(out.all_flags[i])
       /\ \A i \in 1..Len(priorFlags) :
            out.all_flags[Len(out.discrepancy_flags) + i] = priorFlags[i]

\* over-claiming and near the coverage limit, ahead of four prior flags
C26_Witness ==
    /\ AssessmentProduced
    /\ out.all_flags = <<FLAG_OVER, FLAG_MAXING, "multiple_prior_claims",
                         "no_corroboration", "quick_claim_after_policy",
                         "address_change_before_claim">>

(***************************************************************************)
(* Properties of assess_claim_damage (SpecDamage)                          *)
(***************************************************************************)
\* the images of the call in out that can be analyzed, in image order
RECURSIVE AnalyzableImages(_)
AnalyzableImages(image_sources) ==
    IF image_sources = << >> THEN << >>
    ELSE (IF EncodeRaises(Head(image_sources)) THEN << >> ELSE <<Head(image_sources)>>)
           \o AnalyzableImages(Tail(image_sources))

\* C27: assess_claim_damage produces exactly one assessment per successfully
\* analyzed image, in image order, and none for an image whose analysis
\* failed; the failure of one image does not stop the remaining images, and
\* the number of assessments returned is the number of successful analyses,
\* at most the number of images.  For a claim id that does not exist it
\* raises ValueError and stores nothing.
C27_OnePerAnalyzedImage ==
    out.op = "assess_claim_damage"
    => IF QueryClaim(out.claim_id) = << >>
       THEN /\ out.error = "ValueError"
            /\ QueryAssessments(out.claim_id) = << >>
       ELSE /\ out.error = "none"
            /\ out.assessments = NewAssessments(AnalyzableImages(out.image_sources))
            /\ Len(out.assessments) <= Len(out.image_sources)

(***************************************************************************)
(* Properties of analyze_damage on the images of a batch (SpecVision)      *)
(***************************************************************************)
\* the analysis of an image whose cost estimate was replaced by the
\* knowledge base's
CostReplaced(analysis) ==
    /\ analysis.success
    /\ "cost_estimate_source" \in DOMAIN analysis
    /\ analysis.cost_estimate_source = "RAG (Historical Data)"

\* C28: whenever analyze_damage replaces the model's cost estimate by the
\* knowledge-base estimate, at least one detected damage type matched a
\* reference cost row, and the replacing estimate has a max greater than 0:
\* a type that matches a scenario but no cost row never has the estimate
\* overwritten with [0, 0].
C28_ReplacedByReferenceRows ==
    (out.op = "analyze_multiple_images" /\ "individual_analyses" \in DOMAIN out.result)
    => \A i \in 1..Len(out.result.individual_analyses) :
          CostReplaced(out.result.individual_analyses[i])
          => /\ \E k \in 1..Len(out.result.individual_analyses[i].damage_types) :
                  InRepairCosts(out.result.individual_analyses[i].damage_types[k])
             /\ CostMax(out.result.individual_analyses[i]) > 0

(***************************************************************************)
(* Properties of the decisions of the dashboard (SpecReview)               *)
(***************************************************************************)
\* the step is a call of generate_rejection_email, of generate_approval_letter
Rejecting == out'.op = "generate_rejection_email"
Approving == out'.op = "generate_approval_letter"

\* the number of characters of a string that are not whitespace
NonBlank(s) == Cardinality({i \in 1..Len(s) : s[i] \notin Whitespace})

\* a rejection with an empty or malformed claim id or a missing or too short
\* reason returns an error message; a decision that does not succeed leaves
\* the stored claim as it was, and one that succeeds sets its status
DecisionFrame ==
    /\ (Rejecting /\ (\/ out'.claim_id = ""
                      \/ ~IsUUID(out'.claim_id)
                      \/ Falsy(out'.denial_reason)
                      \/ Len(strip(out'.denial_reason[1])) < 10))
       => out'.status \in {"No claim loaded", "Invalid claim ID",
                            "Please provide a detailed denial reason"}
    /\ ((Rejecting \/ Approving) /\ out'.status # "ok") => claim' = claim
    /\ (Rejecting /\ out'.status = "ok") => claim'[1].status = "denied"
    /\ (Approving /\ out'.status = "ok") => claim'[1].status = "approved"
    /\ (Rejecting \/ Approving) => UNCHANGED <<policy, fraud_score, assessments>>

C30_ClaimNotFound ==
    (/\ out.op \in {"generate_approval_letter", "generate_rejection_email"}
     /\ IsUUID(out.claim_id)
     /\ QueryClaim(out.claim_id) = << >>
     /\ out.op = "generate_rejection_email" => ~ReasonRejected(out.denial_reason))
    => out.status = "Claim not found"

====
